---- MODULE Spec2Model ----
(***************************************************************************)
(* smart-hls-transcoder: the quality ladder (lib/analyzer.js) and one run  *)
(* of transcodeVideo (lib/transcoder.js) with its three scheduling         *)
(* policies, the promises of the encode jobs and the master playlist.      *)
(***************************************************************************)
EXTENDS Integers, Sequences, FiniteSets, TLC

\* ------------------------------------------------------------------ bounds
\* Largest --max-concurrent value explored (0 stands for null: not given).
MaxCap == 3
\* Encoder events delivered to an already settled job that a run may see.
MaxLate == 1

\* Source heights the probe may report: below the catalog, between two
\* catalog heights and on catalog heights.
SourceHeights == {100, 240, 500, 1080}
\* minQuality values passed by the caller (360 is the default).
MinQualities == {360, 720}

\* ------------------------------------------------------- the quality ladder
\* analyzer.js getOptimalQualities: the heights of allQualities, in the
\* order of the array literal.
allQualities ==
  <<8640, 7920, 7200, 6480, 5760, 5040, 4320, 3600, 2880, 2160, 1440,
    1080, 720, 540, 480, 360, 240, 144>>

\* Array.prototype.filter with q => q.height <= sourceHeight.
validQualities(sourceHeight) ==
  SelectSeq(allQualities, LAMBDA q : q <= sourceHeight)

\* Mutant of minQualities: the filter keeps only q.height > minQuality.
minQualitiesStrict(sourceHeight, minQuality) ==
  SelectSeq(validQualities(sourceHeight), LAMBDA q : q > minQuality)

\* Array.prototype.filter with q => q.height >= minQuality.
minQualities(sourceHeight, minQuality) ==
  SelectSeq(validQualities(sourceHeight), LAMBDA q : q >= minQuality)

\* Mutant of SortDesc: the comparator is (a, b) => a.height - b.height.
SortAsc(s) ==
  LET before(j, k) == s[j] < s[k] \/ (s[j] = s[k] /\ j < k)
      rank(k) == Cardinality({j \in 1..Len(s) : before(j, k)}) + 1
  IN  [p \in 1..Len(s) |-> s[CHOOSE k \in 1..Len(s) : rank(k) = p]]

\* Array.prototype.sort with (a, b) => b.height - a.height: the sort is
\* stable, so the entry at index k comes after every entry that is higher
\* and after every equal entry of a lower index.
SortDesc(s) ==
  LET before(j, k) == s[j] > s[k] \/ (s[j] = s[k] /\ j < k)
      rank(k) == Cardinality({j \in 1..Len(s) : before(j, k)}) + 1
  IN  [p \in 1..Len(s) |-> s[CHOOSE k \in 1..Len(s) : rank(k) = p]]

\* Mutant of getOptimalQualities: the block for an empty minQualities is
\* missing.
getOptimalQualitiesNoFallback(sourceHeight, minQuality) ==
  SortDesc(minQualities(sourceHeight, minQuality))

\* Mutant of getOptimalQualities: the last fallback takes the first valid
\* quality (the highest) instead of the last.
getOptimalQualitiesHighestFallback(sourceHeight, minQuality) ==
  LET valid == validQualities(sourceHeight)
      minQ  == minQualities(sourceHeight, minQuality)
  IN  IF Len(minQ) = 0
      THEN IF \E k \in 1..Len(allQualities) : allQualities[k] = minQuality
           THEN <<minQuality>>
           ELSE IF Len(valid) > 0
                THEN <<valid[1]>>
                ELSE <<allQualities[1]>>
      ELSE SortDesc(minQ)

\* analyzer.js 416-460.
getOptimalQualities(sourceHeight, minQuality) ==
  LET valid == validQualities(sourceHeight)
      minQ  == minQualities(sourceHeight, minQuality)
  IN  IF Len(minQ) = 0
      THEN IF \E k \in 1..Len(allQualities) : allQualities[k] = minQuality
           THEN <<minQuality>>
           ELSE IF Len(valid) > 0
                THEN <<valid[Len(valid)]>>
                ELSE <<allQualities[Len(allQualities)]>>
      ELSE SortDesc(minQ)

\* ------------------------------------------------------------ the run state
VARIABLES
  opts,              \* the options of the call
  pc,                \* position of transcodeVideo
  dirConfirmed,      \* the write test of the output directory has passed
  began,             \* which of download / analysis have begun
  inputFile,         \* "input", "temp" or "DRY_RUN_TEMP_FILE"
  needsCleanup,      \* the local needsCleanup
  tempFile,          \* temp_source.mp4 exists in the output directory
  analysis,          \* "none", "ok", "failed", "skipped"
  sourceInfo,        \* the source descriptor (height 0: not built yet)
  optimalQualities,  \* the ladder, a sequence of heights
  job,               \* job[k]: state of the promise of processQualityLevel
  starts,            \* starts[k]: number of calls of processQualityLevel
  i,                 \* loop index (0-based, as in the code)
  batches,           \* sizes of the batches launched so far
  results,           \* the local results of processWithConcurrencyLimit
  playlistResults,   \* the local playlistResults of transcodeVideo
  arrival,           \* indices of the jobs that resolved, in time order
  firstError,        \* index of the first awaited job that rejected, or 0
  lateCount,         \* encoder events delivered to settled jobs
  masterPlaylist,    \* stream entries of master.m3u8 on disk (by height)
  masterWrites,      \* number of writes of master.m3u8
  runError,          \* why the run rejected, "" when it did not
  calc,              \* a call of a parameter calculator and its outcome
  gpuMonitor,        \* the GPU usage monitor of the run
  cli                \* the command line that called the run, if any

vars ==
  <<calc, cli, gpuMonitor, opts, pc, dirConfirmed, began, inputFile, needsCleanup, tempFile,
    analysis, sourceInfo, optimalQualities, job, starts, i, batches,
    results, playlistResults, arrival, firstError, lateCount,
    masterPlaylist, masterWrites, runError>>

\* transcoder.js 572-579 and 583-590: the default descriptor
\* (videoBitrate 0 stands for null).
DefaultSourceInfo ==
  [width |-> 1920, height |-> 1080, fps |-> 30, videoBitrate |-> 0]

\* A descriptor analyzeSource resolves with for a 16:9 source of height h.
AnalyzedSourceInfo(h) ==
  [width |-> (h * 16) \div 9, height |-> h, fps |-> 30, videoBitrate |-> 5000]

NoSourceInfo ==
  [width |-> 0, height |-> 0, fps |-> 0, videoBitrate |-> 0]

Min(a, b) == IF a <= b THEN a ELSE b

NumJobs == Len(optimalQualities)
Jobs    == 1..NumJobs

Terminal(s) == s \in {"Succeeded", "Failed"}
RunningJobs == {k \in Jobs : job[k] = "Running"}

\* Mutant of Policy: the cap is looked at before sequential.
PolicyCapFirst ==
  IF opts.maxConcurrent # 0 THEN "capped"
  ELSE IF opts.sequential THEN "sequential"
  ELSE "unlimited"

\* transcoder.js 652 / 673 / 690: which branch the run takes.
Policy ==
  IF opts.sequential THEN "sequential"
  ELSE IF opts.maxConcurrent # 0 THEN "capped"
  ELSE "unlimited"

\* Mutant of BatchOf: the slice takes one element too many.
BatchOfOffByOne(idx, cap, n) == (idx + 1)..Min(idx + cap + 1, n)

\* qualities.slice(i, i + maxConcurrent), as 1-based job indices.
BatchOf(idx, cap, n) == (idx + 1)..Min(idx + cap, n)

\* The jobs whose promises the run is awaiting at its current position.
Awaited ==
  CASE Policy = "sequential" -> {i + 1} \cap Jobs
    [] Policy = "capped"     -> BatchOf(i, opts.maxConcurrent, NumJobs)
    [] OTHER                 -> Jobs

\* Mutant of PromiseAllFulfilled: the promise of Promise.all stays pending
\* when every promise is fulfilled.
PromiseNeverFulfilled(b) == FALSE

\* Mutant of PromiseAllFulfilled: Promise.any, fulfilled with the first
\* promise that is.
PromiseAnyFulfilled(b) == \E k \in b : job[k] = "Succeeded"

\* Mutant of PromiseAllFulfilled: Promise.allSettled, fulfilled once every
\* promise has settled either way.
PromiseAllSettled(b) == \A k \in b : job[k] \in {"Succeeded", "Failed"}

\* Promise.all(promises) is fulfilled once every promise is.
PromiseAllFulfilled(b) == \A k \in b : job[k] = "Succeeded"

\* Mutant of PromiseAllValues: the values in the order the jobs resolved.
PromiseAllValuesByArrival(lo, hi) ==
  LET done == SelectSeq(arrival, LAMBDA k : lo <= k /\ k <= hi)
  IN  [k \in 1..Len(done) |-> optimalQualities[done[k]]]

\* Promise.all(promises) resolves with the values in the order of the
\* promises; a value is { masterEntry, quality }, held here by its height.
PromiseAllValues(lo, hi) ==
  [k \in 1..(hi - lo + 1) |-> optimalQualities[lo + k - 1]]

\* Mutant of Settle: the last event of the encoder wins.
SettleAlways(s, outcome) == outcome

\* resolve / reject of a promise: only a pending promise settles.
Settle(s, outcome) == IF s = "Running" THEN outcome ELSE s

\* ------------------------------------------------------------ JS numbers
\* A JavaScript number: a rational n / d in lowest terms with d > 0, NaN,
\* or an infinity (n is its sign).
RECURSIVE GCD(_, _)
GCD(a, b) == IF b = 0 THEN a ELSE GCD(b, a % b)

Abs(a) == IF a < 0 THEN 0 - a ELSE a

Num(n, d) ==
  LET g == GCD(Abs(n), Abs(d))
      sg == IF d < 0 THEN 0 - 1 ELSE 1
  IN  [k |-> "num", n |-> (sg * n) \div g, d |-> (sg * d) \div g]

Int2Num(a) == [k |-> "num", n |-> a, d |-> 1]
NaN    == [k |-> "NaN", n |-> 0, d |-> 1]
PosInf == [k |-> "Inf", n |-> 1, d |-> 1]
NegInf == [k |-> "Inf", n |-> 0 - 1, d |-> 1]

IsNaN(a)    == a.k = "NaN"
IsFinite(a) == a.k = "num"

\* a < b for two numbers that are not NaN.
NumLess(a, b) ==
  IF a.k = "Inf" THEN a.n < 0 /\ ~(b.k = "Inf" /\ b.n < 0)
  ELSE IF b.k = "Inf" THEN b.n > 0
  ELSE a.n * b.d < b.n * a.d

\* The operator >: false when an operand is NaN.
JsGt(a, b) == ~IsNaN(a) /\ ~IsNaN(b) /\ NumLess(b, a)

\* Math.min and Math.max: NaN when an argument is NaN.
JsMin(a, b) ==
  IF IsNaN(a) \/ IsNaN(b) THEN NaN ELSE IF NumLess(b, a) THEN b ELSE a
JsMax(a, b) ==
  IF IsNaN(a) \/ IsNaN(b) THEN NaN ELSE IF NumLess(a, b) THEN b ELSE a

Sign(a) == IF a.n > 0 THEN 1 ELSE IF a.n < 0 THEN 0 - 1 ELSE 0

\* The operator *: the factors are cancelled crosswise before multiplying.
JsMul(a, b) ==
  IF IsNaN(a) \/ IsNaN(b) THEN NaN
  ELSE IF a.k = "Inf" \/ b.k = "Inf"
       THEN IF Sign(a) * Sign(b) = 0 THEN NaN
            ELSE IF Sign(a) * Sign(b) > 0 THEN PosInf ELSE NegInf
  ELSE LET g1 == GCD(Abs(a.n), b.d)
           g2 == GCD(Abs(b.n), a.d)
       IN  Num((a.n \div g1) * (b.n \div g2), (a.d \div g2) * (b.d \div g1))

\* The operator / for finite operands with a non-zero divisor.
JsDiv(a, b) == JsMul(a, Num(b.d, b.n))

\* The operator + with an integer.
JsAddInt(a, c) ==
  IF a.k = "num" THEN Num(a.n + c * a.d, a.d) ELSE a

\* Math.round: to the nearest integer, halves upwards.
JsRound(a) ==
  IF a.k = "num" THEN Int2Num((2 * a.n + a.d) \div (2 * a.d)) ELSE a

\* a % 2 === 0, for an integer a, NaN or an infinity.
JsIsEven(a) == a.k = "num" /\ a.d = 1 /\ a.n % 2 = 0

\* ---------------------------------------------- the parameter calculators
\* Mutant of getResolutionPresetLocal: the width is not made even.
getResolutionPresetLocalNoEven(targetHeight, sourceAspectRatio) ==
  LET clampedAspectRatio ==
        JsMax(Num(1, 2), JsMin(Int2Num(3), sourceAspectRatio))
      targetWidth == JsRound(JsMul(targetHeight, clampedAspectRatio))
      finalHeight == IF JsIsEven(targetHeight) THEN targetHeight
                     ELSE JsAddInt(targetHeight, 1)
  IN  [threw  |-> FALSE,
       width  |-> JsMax(Int2Num(16), targetWidth),
       height |-> JsMax(Int2Num(16), finalHeight)]

\* Mutant of getResolutionPresetLocal: invalid arguments are refused with
\* an exception.
getResolutionPresetLocalValidating(targetHeight, sourceAspectRatio) ==
  LET clampedAspectRatio ==
        JsMax(Num(1, 2), JsMin(Int2Num(3), sourceAspectRatio))
      targetWidth == JsRound(JsMul(targetHeight, clampedAspectRatio))
      evenWidth   == IF JsIsEven(targetWidth) THEN targetWidth
                     ELSE JsAddInt(targetWidth, 1)
      finalHeight == IF JsIsEven(targetHeight) THEN targetHeight
                     ELSE JsAddInt(targetHeight, 1)
  IN  IF ~IsFinite(sourceAspectRatio) \/ NumLess(targetHeight, Int2Num(0))
      THEN [threw |-> TRUE, width |-> NaN, height |-> NaN]
      ELSE [threw  |-> FALSE,
            width  |-> JsMax(Int2Num(16), evenWidth),
            height |-> JsMax(Int2Num(16), finalHeight)]

\* transcoder.js 310-329 (presets.js 26-45 is the same function). No
\* statement of it throws: threw is FALSE for every input.
getResolutionPresetLocal(targetHeight, sourceAspectRatio) ==
  LET clampedAspectRatio ==
        JsMax(Num(1, 2), JsMin(Int2Num(3), sourceAspectRatio))
      targetWidth == JsRound(JsMul(targetHeight, clampedAspectRatio))
      evenWidth   == IF JsIsEven(targetWidth) THEN targetWidth
                     ELSE JsAddInt(targetWidth, 1)
      finalHeight == IF JsIsEven(targetHeight) THEN targetHeight
                     ELSE JsAddInt(targetHeight, 1)
  IN  [threw  |-> FALSE,
       width  |-> JsMax(Int2Num(16), evenWidth),
       height |-> JsMax(Int2Num(16), finalHeight)]

\* Mutant of UnknownSourceMaxBitrate: the tiers include their lower edge.
UnknownSourceMaxBitrateInclusive(targetHeight) ==
  IF ~JsGt(Int2Num(4320), targetHeight) THEN Int2Num(100000)
  ELSE IF ~JsGt(Int2Num(2160), targetHeight) THEN Int2Num(50000)
  ELSE IF ~JsGt(Int2Num(1080), targetHeight) THEN Int2Num(20000)
  ELSE IF ~JsGt(Int2Num(720), targetHeight) THEN Int2Num(10000)
  ELSE IF ~JsGt(Int2Num(480), targetHeight) THEN Int2Num(4000)
  ELSE IF ~JsGt(Int2Num(360), targetHeight) THEN Int2Num(2000)
  ELSE IF ~JsGt(Int2Num(240), targetHeight) THEN Int2Num(1000)
  ELSE Int2Num(500)

\* transcoder.js 341-348: the cap of the bitrate when the source is unknown.
UnknownSourceMaxBitrate(targetHeight) ==
  IF JsGt(targetHeight, Int2Num(4320)) THEN Int2Num(100000)
  ELSE IF JsGt(targetHeight, Int2Num(2160)) THEN Int2Num(50000)
  ELSE IF JsGt(targetHeight, Int2Num(1080)) THEN Int2Num(20000)
  ELSE IF JsGt(targetHeight, Int2Num(720)) THEN Int2Num(10000)
  ELSE IF JsGt(targetHeight, Int2Num(480)) THEN Int2Num(4000)
  ELSE IF JsGt(targetHeight, Int2Num(360)) THEN Int2Num(2000)
  ELSE IF JsGt(targetHeight, Int2Num(240)) THEN Int2Num(1000)
  ELSE Int2Num(500)

\* transcoder.js 364-379: the compression factor of a downscale.
CompressionFactor(heightRatio) ==
  IF JsGt(heightRatio, Num(9, 10)) THEN Int2Num(1)
  ELSE IF JsGt(heightRatio, Num(7, 10)) THEN Num(85, 100)
  ELSE IF JsGt(heightRatio, Num(5, 10)) THEN Num(7, 10)
  ELSE IF JsGt(heightRatio, Num(3, 10)) THEN Num(55, 100)
  ELSE Num(4, 10)

\* Mutant of MinBitrateFraction: the fractions fall as the height rises.
MinBitrateFractionInverted(targetHeight) ==
  IF JsGt(targetHeight, Int2Num(1080)) THEN Num(2, 10)
  ELSE IF JsGt(targetHeight, Int2Num(720)) THEN Num(4, 10)
  ELSE IF JsGt(targetHeight, Int2Num(480)) THEN Num(6, 10)
  ELSE Num(8, 10)

\* transcoder.js 385-391: the fraction of the target height that is the
\* least bitrate.
MinBitrateFraction(targetHeight) ==
  IF JsGt(targetHeight, Int2Num(1080)) THEN Num(8, 10)
  ELSE IF JsGt(targetHeight, Int2Num(720)) THEN Num(6, 10)
  ELSE IF JsGt(targetHeight, Int2Num(480)) THEN Num(4, 10)
  ELSE Num(2, 10)

\* transcoder.js 394-400: the multiple of the source bitrate that caps the
\* bitrate.
MaxBitrateMultiple(targetHeight) ==
  IF JsGt(targetHeight, Int2Num(4320)) THEN Int2Num(3)
  ELSE IF JsGt(targetHeight, Int2Num(2160)) THEN Num(25, 10)
  ELSE IF JsGt(targetHeight, Int2Num(1080)) THEN Int2Num(2)
  ELSE IF JsGt(targetHeight, Int2Num(720)) THEN Num(18, 10)
  ELSE IF JsGt(targetHeight, Int2Num(480)) THEN Num(15, 10)
  ELSE IF JsGt(targetHeight, Int2Num(360)) THEN Num(13, 10)
  ELSE Num(12, 10)

\* !x for a number: 0 and NaN are falsy (null is held as 0).
Falsy(a) == IsNaN(a) \/ (a.k = "num" /\ a.n = 0)

\* Mutant of calculateOptimizedBitrateLocal: the bitrate is not capped.
calculateOptimizedBitrateLocalNoCap(targetHeight, sourceBitrate, sourceHeight, bandwidthRatio) ==
  IF Falsy(sourceBitrate) \/ Falsy(sourceHeight)
  THEN LET baseBitrate ==
             JsRound(JsMul(JsMul(targetHeight, targetHeight), Num(3, 625)))
           adjustedBitrate == JsMul(baseBitrate, bandwidthRatio)
           minBitrate ==
             JsMax(Int2Num(50), JsMul(targetHeight, Num(2, 10)))
       IN  [threw |-> FALSE,
            value |-> JsRound(JsMax(minBitrate, adjustedBitrate))]
  ELSE LET sourceArea == JsMul(sourceHeight, sourceHeight)
           targetArea == JsMul(targetHeight, targetHeight)
           heightRatio == JsDiv(targetHeight, sourceHeight)
           scaledBitrate ==
             JsMul(JsMul(sourceBitrate, JsDiv(targetArea, sourceArea)),
                   CompressionFactor(heightRatio))
           adjustedBitrate == JsMul(scaledBitrate, bandwidthRatio)
           minBitrate ==
             JsMax(Int2Num(50),
                   JsMul(targetHeight, MinBitrateFraction(targetHeight)))
       IN  [threw |-> FALSE,
            value |-> JsRound(JsMax(minBitrate, adjustedBitrate))]

\* transcoder.js 332-406. The arithmetic is exact; 0.000096 * 50 is 3/625.
calculateOptimizedBitrateLocal(targetHeight, sourceBitrate, sourceHeight, bandwidthRatio) ==
  IF Falsy(sourceBitrate) \/ Falsy(sourceHeight)
  THEN LET baseBitrate ==
             JsRound(JsMul(JsMul(targetHeight, targetHeight), Num(3, 625)))
           adjustedBitrate == JsMul(baseBitrate, bandwidthRatio)
           minBitrate ==
             JsMax(Int2Num(50), JsMul(targetHeight, Num(2, 10)))
           maxBitrate == UnknownSourceMaxBitrate(targetHeight)
           finalBitrate ==
             JsMax(minBitrate, JsMin(maxBitrate, adjustedBitrate))
       IN  [threw |-> FALSE, value |-> JsRound(finalBitrate)]
  ELSE LET sourceArea == JsMul(sourceHeight, sourceHeight)
           targetArea == JsMul(targetHeight, targetHeight)
           heightRatio == JsDiv(targetHeight, sourceHeight)
           scaledBitrate ==
             JsMul(JsMul(sourceBitrate, JsDiv(targetArea, sourceArea)),
                   CompressionFactor(heightRatio))
           adjustedBitrate == JsMul(scaledBitrate, bandwidthRatio)
           minBitrate ==
             JsMax(Int2Num(50),
                   JsMul(targetHeight, MinBitrateFraction(targetHeight)))
           maxBitrate ==
             JsMul(sourceBitrate, MaxBitrateMultiple(targetHeight))
           clampedBitrate ==
             JsMax(minBitrate, JsMin(maxBitrate, adjustedBitrate))
       IN  [threw |-> FALSE, value |-> JsRound(clampedBitrate)]

\* transcoder.js 422-435: the base CRF of a target height
\* (BITRATE_PRESETS.crfValues: high 19, medium 23, low 26).
BaseCRF(targetHeight) ==
  IF targetHeight >= 2160 THEN 19
  ELSE IF targetHeight >= 1440 THEN 19
  ELSE IF targetHeight >= 1080 THEN 23
  ELSE IF targetHeight >= 720 THEN 23
  ELSE IF targetHeight >= 480 THEN 23
  ELSE 26

\* transcoder.js 440: adjustedMaxBitrate || maxBitrate || 5000 (an absent
\* field is held as 0).
ExpectedBitrate(sourceQuality) ==
  IF sourceQuality.adjustedMaxBitrate # 0
  THEN sourceQuality.adjustedMaxBitrate
  ELSE IF sourceQuality.maxBitrate # 0 THEN sourceQuality.maxBitrate
  ELSE 5000

\* Mutant of SourceQualityAdjustment: a richer source raises the CRF.
SourceQualityAdjustmentInverted(sourceQuality) ==
  IF sourceQuality.present /\ sourceQuality.actualBitrate # 0
  THEN LET actualBitrate == sourceQuality.actualBitrate
           expectedBitrate == ExpectedBitrate(sourceQuality)
       IN  IF actualBitrate > expectedBitrate * 2 THEN 3
           ELSE IF 10 * actualBitrate > expectedBitrate * 15 THEN 2
           ELSE IF 10 * actualBitrate > expectedBitrate * 12 THEN 1
           ELSE IF 10 * actualBitrate < expectedBitrate * 5 THEN 0 - 2
           ELSE IF 10 * actualBitrate < expectedBitrate * 8 THEN 0 - 1
           ELSE 0
  ELSE 0

\* transcoder.js 438-453: what the source's bitrate adds to the CRF.
SourceQualityAdjustment(sourceQuality) ==
  IF sourceQuality.present /\ sourceQuality.actualBitrate # 0
  THEN LET actualBitrate == sourceQuality.actualBitrate
           expectedBitrate == ExpectedBitrate(sourceQuality)
       IN  IF actualBitrate > expectedBitrate * 2 THEN 0 - 3
           ELSE IF 10 * actualBitrate > expectedBitrate * 15 THEN 0 - 2
           ELSE IF 10 * actualBitrate > expectedBitrate * 12 THEN 0 - 1
           ELSE IF 10 * actualBitrate < expectedBitrate * 5 THEN 2
           ELSE IF 10 * actualBitrate < expectedBitrate * 8 THEN 1
           ELSE 0
  ELSE 0

\* transcoder.js 456-465: what the pixel format adds to the CRF; pixFmt is
\* "" when the field is absent.
PixFmtAdjustment(sourceQuality) ==
  IF sourceQuality.present /\ sourceQuality.pixFmt # ""
  THEN IF sourceQuality.pixFmt \in {"yuv420p10le", "yuv420p10be"}
       THEN 0 - 1
       ELSE IF sourceQuality.pixFmt \in {"yuv422p12le", "yuv422p12be"}
       THEN 0 - 2
       ELSE IF sourceQuality.pixFmt \in {"yuv444p16le", "yuv444p16be"}
       THEN 0 - 3
       ELSE 0
  ELSE 0

\* Mutant of getOptimalCRFLocal: the result is not clamped.
getOptimalCRFLocalNoClamp(targetHeight, sourceQuality, crfOffset) ==
  BaseCRF(targetHeight) + SourceQualityAdjustment(sourceQuality)
    + PixFmtAdjustment(sourceQuality) + crfOffset

\* transcoder.js 409-474, for an integer offset (Math.round is then the
\* identity).
getOptimalCRFLocal(targetHeight, sourceQuality, crfOffset) ==
  LET baseCRF == BaseCRF(targetHeight)
                   + SourceQualityAdjustment(sourceQuality)
                   + PixFmtAdjustment(sourceQuality) + crfOffset
  IN  IF baseCRF > 40 THEN 40 ELSE IF baseCRF < 10 THEN 10 ELSE baseCRF

\* utils.js getGOPSize (src/unnamed/part_000 59-66): the standard frame
\* rates in the order of Object.keys, and their GOP sizes.
StandardFPS == <<24, 25, 30, 50, 60, 120>>

gopMap == [f \in {24, 25, 30, 50, 60, 120} |-> 2 * f]

\* part_000 69-71: the reduce over the standard rates, from entry k on; the
\* current entry replaces prev when it is strictly closer to fps.
RECURSIVE ClosestStandardFPS(_, _, _)
ClosestStandardFPS(fps, prev, k) ==
  IF k > Len(StandardFPS) THEN prev
  ELSE LET curr == StandardFPS[k]
       IN  ClosestStandardFPS(
             fps,
             IF Abs(curr * fps.d - fps.n) < Abs(prev * fps.d - fps.n)
             THEN curr ELSE prev,
             k + 1)

\* part_000 57-78, for a finite frame rate.
getGOPSize(fps) ==
  LET standardFPS == ClosestStandardFPS(fps, StandardFPS[1], 2)
      gopSize == IF gopMap[standardFPS] # 0 THEN gopMap[standardFPS]
                 ELSE JsRound(JsMul(fps, Int2Num(2))).n
  IN  IF gopSize > 480 THEN 480 ELSE IF gopSize < 24 THEN 24 ELSE gopSize

\* No calculator call is under examination.
NoCalc == [fn |-> "none", done |-> FALSE]

\* transcoder.js 603-611 and 221-228: no monitor has been constructed;
\* requested stands for showGpuUsage && useGpu && gpuConfig.
NoGpuMonitor ==
  [requested |-> FALSE, created |-> FALSE, monitoring |-> FALSE,
   timers |-> 0]

\* transcoder.js 230-246: GpuMonitor.start.
GpuStart(m) ==
  IF m.monitoring THEN m
  ELSE [m EXCEPT !.monitoring = TRUE, !.timers = @ + 1]

\* transcoder.js 261-277: GpuMonitor.stop.
GpuStop(m) ==
  IF m.timers > 0 THEN [m EXCEPT !.monitoring = FALSE, !.timers = @ - 1]
  ELSE m

\* transcoder.js 603-611 and 647-650: the monitor is constructed and, in a
\* run that is not a dry run, started.
MonitorBegun ==
  IF gpuMonitor.requested /\ ~opts.dryRun
  THEN GpuStart([gpuMonitor EXCEPT !.created = TRUE])
  ELSE gpuMonitor

\* transcoder.js 712-715: the monitor, if there is one, is stopped.
MonitorEnded ==
  IF gpuMonitor.created THEN GpuStop(gpuMonitor) ELSE gpuMonitor

\* No command line is involved: the run is a call of the library.
NoCli ==
  [active |-> FALSE, maxConcurrent |-> <<>>, exitCode |-> 0 - 1,
   message |-> ""]

Init ==
  /\ opts \in [isUrl : BOOLEAN, dryRun : BOOLEAN, skipAnalysis : BOOLEAN,
               sequential : BOOLEAN, maxConcurrent : 0..MaxCap,
               minQuality : MinQualities]
  /\ pc = "start"
  /\ dirConfirmed = FALSE
  /\ began = {}
  /\ inputFile = "input"
  /\ needsCleanup = FALSE
  /\ tempFile = FALSE
  /\ analysis = "none"
  /\ sourceInfo = NoSourceInfo
  /\ optimalQualities = <<>>
  /\ job = <<>>
  /\ starts = <<>>
  /\ i = 0
  /\ batches = <<>>
  /\ results = <<>>
  /\ playlistResults = <<>>
  /\ arrival = <<>>
  /\ firstError = 0
  /\ lateCount = 0
  /\ masterPlaylist = <<>>
  /\ masterWrites = 0
  /\ runError = ""
  /\ calc = NoCalc
  /\ gpuMonitor \in {NoGpuMonitor, [NoGpuMonitor EXCEPT !.requested = TRUE]}
  /\ cli = NoCli

\* transcoder.js 739-742: the catch block rethrows; nothing else happens.
Reject(why) ==
  /\ pc' = "rejected"
  /\ runError' = why

\* Groups of variables an action leaves alone.
prepVars == <<dirConfirmed, began, inputFile, needsCleanup, tempFile,
              analysis, sourceInfo>>
jobVars  == <<job, starts, arrival, firstError, lateCount>>
loopVars == <<i, batches, results, playlistResults>>
outVars  == <<masterPlaylist, masterWrites>>

\* Mutant of EnsureOutputDir: the failed write test is logged and the run
\* goes on.
EnsureOutputDirUnchecked ==
  /\ pc = "start"
  /\ \E writable \in BOOLEAN : dirConfirmed' = writable
  /\ pc' = "download"
  /\ UNCHANGED <<calc, cli, gpuMonitor, opts, began, inputFile, needsCleanup, tempFile, analysis,
                 sourceInfo, optimalQualities, jobVars, loopVars, outVars,
                 runError>>

\* transcoder.js 531-544: ensureDir, then the write test of the directory.
EnsureOutputDir ==
  /\ pc = "start"
  /\ \E writable \in BOOLEAN :
       IF writable
       THEN /\ dirConfirmed' = TRUE
            /\ pc' = "download"
            /\ UNCHANGED runError
       ELSE /\ Reject("ResourceError")
            /\ UNCHANGED dirConfirmed
  /\ UNCHANGED <<calc, cli, gpuMonitor, opts, began, inputFile, needsCleanup, tempFile, analysis,
                 sourceInfo, optimalQualities, jobVars, loopVars, outVars>>

\* transcoder.js 546-560: a URL input is downloaded to temp_source.mp4
\* unless the run is a dry run. A failed download may leave a partial file.
Download ==
  /\ pc = "download"
  /\ IF opts.isUrl /\ ~opts.dryRun
     THEN /\ began' = began \cup {"download"}
          /\ \/ /\ tempFile' = TRUE
                /\ inputFile' = "temp"
                /\ needsCleanup' = TRUE
                /\ pc' = "analyze"
                /\ UNCHANGED runError
             \/ /\ tempFile' \in BOOLEAN
                /\ Reject("DownloadError")
                /\ UNCHANGED <<inputFile, needsCleanup>>
     ELSE /\ inputFile' = IF opts.isUrl THEN "DRY_RUN_TEMP_FILE" ELSE "input"
          /\ pc' = "analyze"
          /\ UNCHANGED <<began, tempFile, needsCleanup, runError>>
  /\ UNCHANGED <<calc, cli, gpuMonitor, opts, dirConfirmed, analysis, sourceInfo, optimalQualities,
                 jobVars, loopVars, outVars>>

\* Mutant of AnalyzeCatch: the analysis error is rethrown.
AnalyzeRethrow ==
  /\ analysis' = "failed"
  /\ Reject("AnalysisError")
  /\ UNCHANGED sourceInfo

\* transcoder.js 569-580: the catch block around analyzeSource.
AnalyzeCatch ==
  /\ analysis' = "failed"
  /\ sourceInfo' = DefaultSourceInfo
  /\ pc' = "select"
  /\ UNCHANGED runError

\* transcoder.js 562-591 with analyzer.js 169-188: analyzeSource resolves
\* with a descriptor or rejects (probe error, no video stream). The
\* placeholder path of a dry run names no file, so the probe fails on it.
Analyze ==
  /\ pc = "analyze"
  /\ IF ~opts.skipAnalysis
     THEN /\ began' = began \cup {"analysis"}
          /\ \/ /\ inputFile # "DRY_RUN_TEMP_FILE"
                /\ \E h \in SourceHeights :
                     sourceInfo' = AnalyzedSourceInfo(h)
                /\ analysis' = "ok"
                /\ pc' = "select"
                /\ UNCHANGED runError
             \/ AnalyzeCatch
     ELSE /\ analysis' = "skipped"
          /\ sourceInfo' = DefaultSourceInfo
          /\ pc' = "select"
          /\ UNCHANGED <<began, runError>>
  /\ UNCHANGED <<calc, cli, gpuMonitor, opts, dirConfirmed, inputFile, needsCleanup, tempFile,
                 optimalQualities, jobVars, loopVars, outVars>>

\* Mutant of SelectQualities: the dry-run branch is missing, so a dry run
\* goes on to the dispatch like any other run.
SelectQualitiesNoDryRun ==
  /\ pc = "select"
  /\ LET q == getOptimalQualities(sourceInfo.height, opts.minQuality)
     IN  /\ optimalQualities' = q
         /\ job' = [k \in 1..Len(q) |-> "Pending"]
         /\ starts' = [k \in 1..Len(q) |-> 0]
         /\ pc' = "dispatch"
  /\ gpuMonitor' = MonitorBegun
  /\ UNCHANGED <<calc, cli, opts, prepVars, arrival, firstError, lateCount, i, batches,
                 results, playlistResults, outVars, runError>>

\* transcoder.js 613-645: the ladder; a dry run lists the entries it would
\* produce and goes on to the end of the function.
SelectQualities ==
  /\ pc = "select"
  /\ LET q == getOptimalQualities(sourceInfo.height, opts.minQuality)
     IN  /\ optimalQualities' = q
         /\ job' = [k \in 1..Len(q) |-> "Pending"]
         /\ starts' = [k \in 1..Len(q) |-> 0]
         /\ IF opts.dryRun
            THEN /\ playlistResults' = q
                 /\ pc' = "resolved"
            ELSE /\ pc' = "dispatch"
                 /\ UNCHANGED playlistResults
  /\ gpuMonitor' = MonitorBegun
  /\ UNCHANGED <<calc, cli, opts, prepVars, arrival, firstError, lateCount, i, batches,
                 results, outVars, runError>>

\* processQualityLevel is called for every job of b: its promise is pending.
StartJobs(b) ==
  /\ job' = [k \in Jobs |-> IF k \in b THEN "Running" ELSE job[k]]
  /\ starts' = [k \in Jobs |-> IF k \in b THEN starts[k] + 1 ELSE starts[k]]
  /\ batches' = Append(batches, Cardinality(b))

\* transcoder.js 652-672: the for loop of the sequential branch, up to the
\* await of the next job (or to the end of the loop).
SequentialNext ==
  /\ pc = "dispatch"
  /\ Policy = "sequential"
  /\ IF i < NumJobs
     THEN /\ StartJobs({i + 1})
          /\ pc' = "await"
          /\ UNCHANGED gpuMonitor
     ELSE /\ pc' = "write"
          /\ gpuMonitor' = MonitorEnded
          /\ UNCHANGED <<job, starts, batches>>
  /\ UNCHANGED <<calc, cli, opts, prepVars, optimalQualities, arrival, firstError,
                 lateCount, i, results, playlistResults, outVars, runError>>

\* Mutant of SequentialResume: the result is put in front (unshift) instead
\* of pushed.
SequentialResumeUnshift ==
  /\ pc = "await"
  /\ Policy = "sequential"
  /\ job[i + 1] = "Succeeded"
  /\ playlistResults' = <<optimalQualities[i + 1]>> \o playlistResults
  /\ i' = i + 1
  /\ pc' = "dispatch"
  /\ UNCHANGED <<calc, cli, gpuMonitor, opts, prepVars, optimalQualities, jobVars, batches, results,
                 outVars, runError>>

\* transcoder.js 657-671: the awaited job resolved; its result is pushed.
SequentialResume ==
  /\ pc = "await"
  /\ Policy = "sequential"
  /\ job[i + 1] = "Succeeded"
  /\ playlistResults' = Append(playlistResults, optimalQualities[i + 1])
  /\ i' = i + 1
  /\ pc' = "dispatch"
  /\ UNCHANGED <<calc, cli, gpuMonitor, opts, prepVars, optimalQualities, jobVars, batches, results,
                 outVars, runError>>

\* transcoder.js 749-768 and 774, 676: the batch loop of
\* processWithConcurrencyLimit up to its await, or its return.
CappedNext ==
  /\ pc = "dispatch"
  /\ Policy = "capped"
  /\ IF i < NumJobs
     THEN /\ StartJobs(BatchOf(i, opts.maxConcurrent, NumJobs))
          /\ pc' = "await"
          /\ UNCHANGED <<playlistResults, gpuMonitor>>
     ELSE /\ playlistResults' = results
          /\ pc' = "write"
          /\ gpuMonitor' = MonitorEnded
          /\ UNCHANGED <<job, starts, batches>>
  /\ UNCHANGED <<calc, cli, opts, prepVars, optimalQualities, arrival, firstError,
                 lateCount, i, results, outVars, runError>>

\* Mutant of CappedResume: results is assigned the batch's results instead
\* of having them pushed.
CappedResumeOverwrite ==
  /\ pc = "await"
  /\ Policy = "capped"
  /\ PromiseAllFulfilled(Awaited)
  /\ results' = PromiseAllValues(i + 1, i + Cardinality(Awaited))
  /\ i' = i + opts.maxConcurrent
  /\ pc' = "dispatch"
  /\ UNCHANGED <<calc, cli, gpuMonitor, opts, prepVars, optimalQualities, jobVars, batches,
                 playlistResults, outVars, runError>>

\* transcoder.js 770-771 and 749: Promise.all of the batch resolved.
CappedResume ==
  /\ pc = "await"
  /\ Policy = "capped"
  /\ PromiseAllFulfilled(Awaited)
  /\ results' = results \o PromiseAllValues(i + 1, i + Cardinality(Awaited))
  /\ i' = i + opts.maxConcurrent
  /\ pc' = "dispatch"
  /\ UNCHANGED <<calc, cli, gpuMonitor, opts, prepVars, optimalQualities, jobVars, batches,
                 playlistResults, outVars, runError>>

\* transcoder.js 690-709: every job is started, then Promise.all is awaited.
UnlimitedStart ==
  /\ pc = "dispatch"
  /\ Policy = "unlimited"
  /\ StartJobs(Jobs)
  /\ pc' = "await"
  /\ UNCHANGED <<calc, cli, gpuMonitor, opts, prepVars, optimalQualities, arrival, firstError,
                 lateCount, i, results, playlistResults, outVars, runError>>

\* transcoder.js 709: Promise.all of all jobs resolved.
UnlimitedResume ==
  /\ pc = "await"
  /\ Policy = "unlimited"
  /\ PromiseAllFulfilled(Awaited)
  /\ playlistResults' = PromiseAllValues(1, NumJobs)
  /\ pc' = "write"
  /\ gpuMonitor' = MonitorEnded
  /\ UNCHANGED <<calc, cli, opts, prepVars, optimalQualities, jobVars, i, batches,
                 results, outVars, runError>>

\* Mutant of AwaitRejected: the error of a batch is caught inside the loop
\* and the loop goes on with the next batch.
AwaitRejectedContinue ==
  /\ pc = "await"
  /\ firstError # 0
  /\ IF Policy = "unlimited"
     THEN /\ Reject("JobError")
          /\ UNCHANGED <<i, firstError>>
     ELSE /\ i' = i + (IF opts.sequential THEN 1 ELSE opts.maxConcurrent)
          /\ firstError' = 0
          /\ pc' = "dispatch"
          /\ UNCHANGED runError
  /\ UNCHANGED <<calc, cli, gpuMonitor, opts, prepVars, optimalQualities, job, starts, arrival,
                 lateCount, batches, results, playlistResults, outVars>>

\* The awaited promise (of the job, or Promise.all of the batch) rejected:
\* the await throws into the catch block of transcodeVideo.
AwaitRejected ==
  /\ pc = "await"
  /\ firstError # 0
  /\ Reject("JobError")
  /\ UNCHANGED <<calc, cli, gpuMonitor, opts, prepVars, optimalQualities, jobVars, loopVars,
                 outVars>>

\* transcoder.js 913-919: the encoder emits 'end'; resolve(...) is called.
JobEnd(k) ==
  /\ job[k] # "Pending"
  /\ job[k] = "Running" \/ lateCount < MaxLate
  /\ job' = [job EXCEPT ![k] = Settle(job[k], "Succeeded")]
  /\ arrival' = IF job[k] = "Running" THEN Append(arrival, k) ELSE arrival
  /\ lateCount' = IF job[k] = "Running" THEN lateCount ELSE lateCount + 1
  /\ UNCHANGED <<calc, cli, gpuMonitor, opts, pc, prepVars, optimalQualities, starts, firstError,
                 loopVars, outVars, runError>>

\* transcoder.js 920-927: the encoder emits 'error' (or the set-up of the
\* job throws); reject(...) is called. The first rejection among the
\* awaited promises is the one the await throws.
JobError(k) ==
  /\ job[k] # "Pending"
  /\ job[k] = "Running" \/ lateCount < MaxLate
  /\ job' = [job EXCEPT ![k] = Settle(job[k], "Failed")]
  /\ firstError' = IF job[k] = "Running" /\ firstError = 0
                   THEN k ELSE firstError
  /\ lateCount' = IF job[k] = "Running" THEN lateCount ELSE lateCount + 1
  /\ UNCHANGED <<calc, cli, gpuMonitor, opts, pc, prepVars, optimalQualities, starts, arrival,
                 loopVars, outVars, runError>>

\* transcoder.js 717-725: the entries are appended in the order of
\* playlistResults and master.m3u8 is written.
WriteMaster ==
  /\ pc = "write"
  /\ \/ /\ masterPlaylist' = playlistResults
        /\ masterWrites' = masterWrites + 1
        /\ pc' = "cleanup"
        /\ UNCHANGED runError
     \/ /\ Reject("WriteError")
        /\ UNCHANGED outVars
  /\ UNCHANGED <<calc, cli, gpuMonitor, opts, prepVars, optimalQualities, jobVars, loopVars>>

\* transcoder.js 727-737: the downloaded source is removed; the run resolves.
Cleanup ==
  /\ pc = "cleanup"
  /\ IF needsCleanup
     THEN \/ /\ tempFile' = FALSE
             /\ pc' = "resolved"
             /\ UNCHANGED runError
          \/ /\ Reject("CleanupError")
             /\ UNCHANGED tempFile
     ELSE /\ pc' = "resolved"
          /\ UNCHANGED <<tempFile, runError>>
  /\ UNCHANGED <<calc, cli, gpuMonitor, opts, dirConfirmed, began, inputFile, needsCleanup, analysis,
                 sourceInfo, optimalQualities, jobVars, loopVars, outVars>>

Next ==
  \/ EnsureOutputDir
  \/ Download
  \/ Analyze
  \/ SelectQualities
  \/ SequentialNext
  \/ SequentialResume
  \/ CappedNext
  \/ CappedResume
  \/ UnlimitedStart
  \/ UnlimitedResume
  \/ AwaitRejected
  \/ \E k \in Jobs : JobEnd(k)
  \/ \E k \in Jobs : JobError(k)
  \/ WriteMaster
  \/ Cleanup

Spec == Init /\ [][Next]_vars

Settled == pc \in {"resolved", "rejected"}

TypeOK ==
  /\ pc \in {"cli", "start", "download", "analyze", "select", "dispatch", "await",
             "write", "cleanup", "resolved", "rejected"}
  /\ Len(job) = NumJobs /\ Len(starts) = NumJobs
  /\ \A k \in Jobs : job[k] \in {"Pending", "Running", "Succeeded", "Failed"}
  /\ firstError \in 0..NumJobs
  /\ lateCount \in 0..MaxLate

\* ------------------------------------------------------------------ claims
\* The run has got past the dispatch of all its jobs.
LoopDone == ~opts.dryRun /\ pc \in {"write", "cleanup", "resolved"}

\* The batch size the run's policy implies (0: one batch of all jobs).
EffectiveCap == IF opts.sequential THEN 1 ELSE opts.maxConcurrent

\* The batch a job belongs to under the sequential and capped policies.
BatchIndex(k) == ((k - 1) \div EffectiveCap) + 1

CeilDiv(a, b) == (a + b - 1) \div b

\* C1: no upscaling: every rendition of the ladder computed by
\* getOptimalQualities(H, M) has a height <= the source height H, so no
\* encode job has a target height above the source height.
C1_NoUpscaling ==
  \A k \in Jobs : optimalQualities[k] <= sourceInfo.height

\* C2: manifest order: whenever master.m3u8 has been written, under every
\* policy and for every completion order of the jobs, its stream entries are
\* the renditions of the ladder in ladder order, in strictly descending
\* height; the content does not depend on the order of arrival.
C2_ManifestOrder ==
  masterWrites > 0 =>
    /\ masterPlaylist = optimalQualities
    /\ \A a, b \in 1..Len(masterPlaylist) :
         a < b => masterPlaylist[a] > masterPlaylist[b]

\* C2 witness: all jobs ran at once, the last rendition of the ladder
\* finished first and the first one last, and the playlist is on disk.
C2_Witness ==
  /\ Policy = "unlimited"
  /\ masterWrites > 0
  /\ NumJobs >= 3
  /\ arrival[1] = NumJobs
  /\ arrival[NumJobs] = 1

\* C3: concurrency bound: under the capped policy at most maxConcurrent jobs
\* are Running at any moment, under the sequential policy at most one, also
\* after a job of the current batch has failed.
C3_ConcurrencyBound ==
  /\ Policy = "capped" => Cardinality(RunningJobs) <= opts.maxConcurrent
  /\ Policy = "sequential" => Cardinality(RunningJobs) <= 1

\* C3 witness: cap 2, a later batch is in flight, one of its jobs has failed
\* and the run has rejected while the sibling is still Running.
C3_Witness ==
  /\ Policy = "capped"
  /\ opts.maxConcurrent = 2
  /\ NumJobs = 5
  /\ pc = "rejected"
  /\ job[3] = "Failed"
  /\ job[4] = "Running"
  /\ job[5] = "Pending"

\* C4: batching under the capped policy: the jobs are started in ladder
\* order in consecutive batches of size <= cap, ceil(n / cap) batches when
\* the loop completes (2, 2, 1 for cap 2 and 5 renditions), and no job of a
\* later batch has left Pending while a job of an earlier batch is not
\* terminal.
C4_Batching ==
  Policy = "capped" =>
    LET cap == opts.maxConcurrent
    IN  /\ \A b \in 1..Len(batches) :
             /\ batches[b] = Min(cap, NumJobs - (b - 1) * cap)
             /\ batches[b] >= 1
        /\ {k \in Jobs : job[k] # "Pending"}
             = 1..Min(Len(batches) * cap, NumJobs)
        /\ Len(batches) <= CeilDiv(NumJobs, cap)
        /\ LoopDone => Len(batches) = CeilDiv(NumJobs, cap)
        /\ (LoopDone /\ cap = 2 /\ NumJobs = 5) => batches = <<2, 2, 1>>
        /\ \A a, b \in Jobs :
             (BatchIndex(a) < BatchIndex(b) /\ job[b] # "Pending")
               => Terminal(job[a])

\* C4 witness: cap 2 over 5 renditions ran to the end in 3 batches.
C4_Witness ==
  /\ Policy = "capped"
  /\ opts.maxConcurrent = 2
  /\ NumJobs = 5
  /\ batches = <<2, 2, 1>>
  /\ pc = "resolved"

\* C5: a failed job fails the run: once any job has failed (under every
\* policy), master.m3u8 is not written in that run, the run does not
\* resolve, and when it settles it has rejected with one error, that of the
\* first job that failed.
C5_FailureRejects ==
  (\E k \in Jobs : job[k] = "Failed") =>
    /\ masterWrites = 0
    /\ ~LoopDone
    /\ Settled =>
         /\ pc = "rejected"
         /\ runError = "JobError"
         /\ firstError \in Jobs
         /\ job[firstError] = "Failed"

\* C5 witness: unlimited-parallel, two jobs failed and another succeeded
\* after the first failure; the run has rejected.
C5_Witness ==
  /\ Policy = "unlimited"
  /\ pc = "rejected"
  /\ NumJobs >= 3
  /\ Cardinality({k \in Jobs : job[k] = "Failed"}) = 2
  /\ \E k \in Jobs : job[k] = "Succeeded" /\ k > firstError

\* C6: failure aborts later work: under the capped and sequential policies,
\* once a job has failed no job of a later batch is started: it is Pending
\* and processQualityLevel was never called for it.
C6_FailureAborts ==
  Policy \in {"capped", "sequential"} =>
    \A a, b \in Jobs :
      (job[a] = "Failed" /\ BatchIndex(b) > BatchIndex(a))
        => (job[b] = "Pending" /\ starts[b] = 0)

\* C6 witness: sequential, the second of five jobs failed, the run has
\* rejected and the three later jobs are still Pending.
C6_Witness ==
  /\ Policy = "sequential"
  /\ NumJobs = 5
  /\ pc = "rejected"
  /\ job[1] = "Succeeded"
  /\ job[2] = "Failed"
  /\ \A k \in 3..5 : job[k] = "Pending"

\* C7: job lifecycle: a job's state changes only Pending -> Running,
\* Running -> Succeeded or Running -> Failed (so a terminal state is final,
\* also when the encoder emits a later 'end' or 'error'), and
\* processQualityLevel is called at most once per rendition.
C7_Lifecycle ==
  /\ [][\A k \in (DOMAIN job) \cap (DOMAIN job') :
          \/ job'[k] = job[k]
          \/ <<job[k], job'[k]>> \in {<<"Pending", "Running">>,
                                      <<"Running", "Succeeded">>,
                                      <<"Running", "Failed">>}]_vars
  /\ [](\A k \in Jobs : starts[k] <= 1)

\* C7 witness: the encoder delivered an event to a job that had already
\* settled.
C7_Witness ==
  /\ lateCount > 0
  /\ \E k \in Jobs : job[k] = "Succeeded"
  /\ \E k \in Jobs : job[k] = "Failed"

\* C8: the downloaded temp_source.mp4 is removed by the time the run
\* settles, when the run resolves and when it rejects because a job failed.
C8_TempFileRemoved ==
  (needsCleanup /\ (pc = "resolved" \/ (pc = "rejected" /\ runError = "JobError")))
    => ~tempFile

\* C9: the output-directory check comes first: no download, analysis or
\* encode job has begun (and no temporary file exists) unless the directory
\* was confirmed writable, and a run that fails on the directory check has
\* begun none of them.
C9_DirCheckFirst ==
  /\ (began # {} \/ tempFile \/ NumJobs > 0) => dirConfirmed
  /\ runError = "ResourceError" =>
       /\ pc = "rejected"
       /\ began = {}
       /\ ~tempFile
       /\ NumJobs = 0

\* C9 witness: a URL input with analysis requested, and the directory was
\* not writable.
C9_Witness ==
  /\ runError = "ResourceError"
  /\ opts.isUrl /\ ~opts.dryRun /\ ~opts.skipAnalysis

\* C10 as stated: after a failed analysis (skipAnalysis not selected) no
\* encode job is started, and the default descriptor is in use only when
\* the caller selected skipAnalysis.
C10_AnalysisFailureAborts ==
  /\ analysis = "failed" => \A k \in Jobs : job[k] = "Pending"
  /\ sourceInfo = DefaultSourceInfo => opts.skipAnalysis

\* C10 amended: a failed analysis does not abort the run: transcodeVideo
\* falls back to the default descriptor (1920x1080, 30 fps, unknown
\* bitrate) and goes on with the ladder of a 1080 source; the default
\* descriptor is used both when the caller selected skipAnalysis and when
\* the analysis failed, and the analysed one otherwise.
C10_AnalysisFallback ==
  /\ analysis = "failed" =>
       /\ ~opts.skipAnalysis
       /\ sourceInfo = DefaultSourceInfo
       /\ pc # "analyze"
       /\ pc = "rejected" => runError \in {"JobError", "WriteError", "CleanupError"}
  /\ analysis = "skipped" => (opts.skipAnalysis /\ sourceInfo = DefaultSourceInfo)
  /\ analysis = "ok" =>
       (~opts.skipAnalysis /\ \E h \in SourceHeights : sourceInfo = AnalyzedSourceInfo(h))
  /\ (analysis \in {"failed", "skipped"} /\ NumJobs > 0) =>
       optimalQualities = getOptimalQualities(1080, opts.minQuality)

\* C10 witness: the analysis failed, skipAnalysis was not selected, and an
\* encode job of the default ladder is running.
C10_Witness ==
  /\ analysis = "failed"
  /\ ~opts.skipAnalysis
  /\ \E k \in Jobs : job[k] = "Running"

\* C11: master.m3u8 is written only once every job of the run has
\* Succeeded, at most once per run, and it then holds exactly one stream
\* entry per rendition of the ladder.
C11_MasterAfterAllJobs ==
  /\ masterWrites <= 1
  /\ masterWrites = 0 => masterPlaylist = <<>>
  /\ masterWrites > 0 =>
       /\ ~opts.dryRun
       /\ \A k \in Jobs : job[k] = "Succeeded"
       /\ Len(masterPlaylist) = NumJobs
       /\ \A k \in Jobs :
            Cardinality({e \in 1..Len(masterPlaylist) :
                           masterPlaylist[e] = optimalQualities[k]}) = 1

\* C11 witness: a capped run of five renditions has written the playlist.
C11_Witness ==
  /\ Policy = "capped"
  /\ opts.maxConcurrent = 2
  /\ NumJobs = 5
  /\ masterWrites = 1
  /\ Len(masterPlaylist) = 5

\* The accumulator of the loop: playlistResults in the sequential branch,
\* results in processWithConcurrencyLimit.
Accumulated == IF opts.sequential THEN playlistResults ELSE results

\* C12: sequential is capped with cap 1: the sequential branch and
\* processWithConcurrencyLimit with maxConcurrent = 1 satisfy one and the
\* same description, whatever the outcomes of the jobs: jobs are started one
\* at a time in ladder order, job k + 1 only after job k succeeded, the
\* results gathered so far are the ladder's first i renditions in order, a
\* failure stops the run at the failing job, and a completed loop returns
\* the whole ladder in order.
C12_SequentialIsCapOne ==
  (~opts.dryRun /\ (Policy = "sequential"
                    \/ (Policy = "capped" /\ opts.maxConcurrent = 1))) =>
    /\ \A b \in 1..Len(batches) : batches[b] = 1
    /\ {k \in Jobs : job[k] # "Pending"} = 1..Len(batches)
    /\ \A k \in Jobs : starts[k] = (IF k <= Len(batches) THEN 1 ELSE 0)
    /\ \A k \in 2..Len(batches) : job[k - 1] = "Succeeded"
    /\ pc \in {"dispatch", "await"} =>
         /\ i <= NumJobs
         /\ Accumulated = SubSeq(optimalQualities, 1, i)
         /\ Len(batches) = (IF pc = "await" THEN i + 1 ELSE i)
    /\ LoopDone =>
         /\ playlistResults = optimalQualities
         /\ Len(batches) = NumJobs
    /\ (pc = "rejected" /\ runError = "JobError") =>
         /\ firstError = Len(batches)
         /\ job[firstError] = "Failed"
         /\ Accumulated = SubSeq(optimalQualities, 1, firstError - 1)

\* C12 witness: processWithConcurrencyLimit with cap 1 stopped at the third
\* of five jobs, as the sequential branch does.
C12_Witness ==
  /\ Policy = "capped"
  /\ opts.maxConcurrent = 1
  /\ NumJobs = 5
  /\ pc = "rejected"
  /\ firstError = 3

\* C13: a dry run does nothing: no encode job is started, nothing is
\* downloaded, master.m3u8 is not written and no file is removed by the
\* clean-up, for every policy and for a local path as for a URL.
C13_DryRunDoesNothing ==
  opts.dryRun =>
    /\ \A k \in Jobs : job[k] = "Pending" /\ starts[k] = 0
    /\ batches = <<>>
    /\ "download" \notin began
    /\ ~tempFile
    /\ ~needsCleanup
    /\ masterWrites = 0
    /\ pc \notin {"dispatch", "await", "write", "cleanup"}

\* C13 witness: a dry run on a URL with a cap has run to its end.
C13_Witness ==
  /\ opts.dryRun
  /\ opts.isUrl
  /\ opts.maxConcurrent = 2
  /\ pc = "resolved"
  /\ NumJobs = 5

\* ------------------------------------------------- the ladder on its own
\* The heights of the catalog, as a set.
Catalog == {allQualities[k] : k \in 1..Len(allQualities)}

\* Source heights for the ladder: every catalog height, its two neighbours,
\* and heights below the whole catalog.
LadderHeights ==
  {1, 100} \cup Catalog \cup {c - 1 : c \in Catalog} \cup {c + 1 : c \in Catalog}

\* minQuality values for the ladder: every catalog height (the values the
\* command line accepts) and values between, below and above them, which a
\* caller of transcodeVideo may pass.
LadderMins == Catalog \cup {0, 50, 300, 361, 1000, 9000}

\* transcodeVideo at line 614, about to call getOptimalQualities, for any
\* analysed source height and any minQuality.
LadderInit ==
  /\ opts \in [isUrl : {FALSE}, dryRun : BOOLEAN, skipAnalysis : {FALSE},
               sequential : {FALSE}, maxConcurrent : {0},
               minQuality : LadderMins]
  /\ pc = "select"
  /\ dirConfirmed = TRUE
  /\ began = {"analysis"}
  /\ inputFile = "input"
  /\ needsCleanup = FALSE
  /\ tempFile = FALSE
  /\ analysis = "ok"
  /\ \E h \in LadderHeights : sourceInfo = AnalyzedSourceInfo(h)
  /\ optimalQualities = <<>>
  /\ job = <<>>
  /\ starts = <<>>
  /\ i = 0
  /\ batches = <<>>
  /\ results = <<>>
  /\ playlistResults = <<>>
  /\ arrival = <<>>
  /\ firstError = 0
  /\ lateCount = 0
  /\ masterPlaylist = <<>>
  /\ masterWrites = 0
  /\ runError = ""
  /\ calc = NoCalc
  /\ gpuMonitor = NoGpuMonitor
  /\ cli = NoCli

LadderSpec == LadderInit /\ [][SelectQualities]_vars

\* getOptimalQualities has returned.
LadderComputed == pc \notin {"start", "download", "analyze", "select"}

\* The catalog heights between minQuality and the source height.
InRange == {c \in Catalog : opts.minQuality <= c /\ c <= sourceInfo.height}

LadderSet == {optimalQualities[k] : k \in 1..Len(optimalQualities)}

\* C14: the ladder is never empty, also for a source height below the
\* lowest catalog height and for every minQuality.
C14_NeverEmpty ==
  LadderComputed => Len(optimalQualities) >= 1

\* C14 witness: a source lower than every catalog height with a minQuality
\* that is no catalog height: the last fallback applies.
C14_Witness ==
  /\ LadderComputed
  /\ sourceInfo.height = 100
  /\ opts.minQuality = 50
  /\ optimalQualities = <<144>>

\* C15: consecutive renditions of the ladder have strictly decreasing
\* heights.
C15_StrictlyDescending ==
  LadderComputed =>
    \A a \in 1..(Len(optimalQualities) - 1) :
      optimalQualities[a] > optimalQualities[a + 1]

\* C15 witness: the whole catalog is the ladder.
C15_Witness ==
  /\ LadderComputed
  /\ Len(optimalQualities) = Len(allQualities)

C18_Ladder720 ==
  (LadderComputed /\ sourceInfo.height = 720 /\ opts.minQuality = 360)
    => optimalQualities = <<720, 480, 360>>

\* ------------------------------------------- the calculator specification
\* The calculators are pure: each behaviour is one call, with arguments
\* drawn from the sets below, of getResolutionPresetLocal, of
\* calculateOptimizedBitrateLocal, of getOptimalCRFLocal or of getGOPSize
\* (transcoder.js 632-635 and 791-794 are their call sites).
CalcHeights == Catalog \cup {0 - 720, 0 - 1, 0, 1, 145, 481}

FiniteAspectRatios ==
  {Num(1, 4), Num(1, 2), Num(9, 16), Num(3, 4), Int2Num(1), Num(4, 3),
   Num(16, 9), Num(7, 3), Int2Num(3), Int2Num(4)}

AspectRatios ==
  FiniteAspectRatios \cup {NaN, PosInf, NegInf, Int2Num(0), Num(0 - 16, 9)}

SourceBitrates == {0, 100, 800, 5000}
SourceHeightsKnown == {0, 720, 1080, 2160}
BandwidthRatios == {Num(1, 2), Int2Num(1), Num(3, 2), Int2Num(2)}

ResolutionCalls ==
  {[fn |-> "getResolutionPresetLocal", done |-> FALSE,
    args |-> [targetHeight |-> t, sourceAspectRatio |-> a]] :
      t \in CalcHeights, a \in AspectRatios}

BitrateCalls ==
  {[fn |-> "calculateOptimizedBitrateLocal", done |-> FALSE,
    args |-> [targetHeight |-> x[1], sourceBitrate |-> x[2],
              sourceHeight |-> x[3], bandwidthRatio |-> x[4]]] :
      x \in CalcHeights \X SourceBitrates \X SourceHeightsKnown
              \X BandwidthRatios}

CrfHeights == {144, 479, 480, 720, 1080, 1439, 1440, 2160}

ActualBitrates ==
  {0, 1000, 2000, 2500, 4000, 5000, 6000, 6001, 7500, 7501, 10000, 10001}

\* <<adjustedMaxBitrate, maxBitrate>>, 0 for an absent field.
ExpectedBitrates == {<<0, 0>>, <<0, 4000>>, <<5000, 4000>>}

PixFmts == {"", "yuv420p", "yuv420p10le", "yuv422p12be", "yuv444p16le"}

CrfOffsets == {0 - 30, 0 - 5, 0 - 1, 0, 1, 5, 30}

NoSourceQuality ==
  [present |-> FALSE, actualBitrate |-> 0, adjustedMaxBitrate |-> 0,
   maxBitrate |-> 0, pixFmt |-> ""]

SourceQualities ==
  {NoSourceQuality} \cup
  {[present |-> TRUE, actualBitrate |-> a, adjustedMaxBitrate |-> e[1],
    maxBitrate |-> e[2], pixFmt |-> p] :
      a \in ActualBitrates, e \in ExpectedBitrates, p \in PixFmts}

CrfCalls ==
  {[fn |-> "getOptimalCRFLocal", done |-> FALSE,
    args |-> [targetHeight |-> t, sourceQuality |-> q, crfOffset |-> o]] :
      t \in CrfHeights, q \in SourceQualities, o \in CrfOffsets}

FrameRates ==
  {Int2Num(1), Int2Num(10), Int2Num(15), Num(23976, 1000), Int2Num(24),
   Int2Num(25), Num(2997, 100), Int2Num(30), Int2Num(48), Int2Num(50),
   Int2Num(60), Int2Num(90), Int2Num(120), Int2Num(240), Int2Num(300)}

GopCalls ==
  {[fn |-> "getGOPSize", done |-> FALSE, args |-> [fps |-> f]] :
      f \in FrameRates}

CalcInit ==
  /\ calc \in ResolutionCalls \cup BitrateCalls \cup CrfCalls \cup GopCalls
  /\ gpuMonitor = NoGpuMonitor
  /\ cli = NoCli
  /\ opts = [isUrl |-> FALSE, dryRun |-> FALSE, skipAnalysis |-> FALSE,
             sequential |-> FALSE, maxConcurrent |-> 0, minQuality |-> 360]
  /\ pc = "start"
  /\ dirConfirmed = FALSE
  /\ began = <<>>
  /\ inputFile = "input"
  /\ needsCleanup = FALSE
  /\ tempFile = "none"
  /\ analysis = "none"
  /\ sourceInfo = NoSourceInfo
  /\ optimalQualities = <<>>
  /\ job = <<>>
  /\ starts = <<>>
  /\ i = 0
  /\ batches = <<>>
  /\ results = <<>>
  /\ playlistResults = <<>>
  /\ arrival = <<>>
  /\ firstError = 0
  /\ lateCount = 0
  /\ masterPlaylist = <<>>
  /\ masterWrites = 0
  /\ runError = ""

CallResolution ==
  /\ calc.fn = "getResolutionPresetLocal"
  /\ ~calc.done
  /\ calc' = [fn |-> calc.fn, done |-> TRUE, args |-> calc.args,
              out |-> getResolutionPresetLocal(
                        Int2Num(calc.args.targetHeight),
                        calc.args.sourceAspectRatio)]
  /\ UNCHANGED <<cli, gpuMonitor, opts, pc, dirConfirmed, began, inputFile, needsCleanup,
                 tempFile, analysis, sourceInfo, optimalQualities, job,
                 starts, i, batches, results, playlistResults, arrival,
                 firstError, lateCount, masterPlaylist, masterWrites,
                 runError>>

CallBitrate ==
  /\ calc.fn = "calculateOptimizedBitrateLocal"
  /\ ~calc.done
  /\ calc' = [fn |-> calc.fn, done |-> TRUE, args |-> calc.args,
              out |-> calculateOptimizedBitrateLocal(
                        Int2Num(calc.args.targetHeight),
                        Int2Num(calc.args.sourceBitrate),
                        Int2Num(calc.args.sourceHeight),
                        calc.args.bandwidthRatio)]
  /\ UNCHANGED <<cli, gpuMonitor, opts, pc, dirConfirmed, began, inputFile, needsCleanup,
                 tempFile, analysis, sourceInfo, optimalQualities, job,
                 starts, i, batches, results, playlistResults, arrival,
                 firstError, lateCount, masterPlaylist, masterWrites,
                 runError>>

CallCrf ==
  /\ calc.fn = "getOptimalCRFLocal"
  /\ ~calc.done
  /\ calc' = [fn |-> calc.fn, done |-> TRUE, args |-> calc.args,
              out |-> [threw |-> FALSE,
                       value |-> getOptimalCRFLocal(
                                   calc.args.targetHeight,
                                   calc.args.sourceQuality,
                                   calc.args.crfOffset)]]
  /\ UNCHANGED <<cli, gpuMonitor, opts, pc, dirConfirmed, began, inputFile, needsCleanup,
                 tempFile, analysis, sourceInfo, optimalQualities, job,
                 starts, i, batches, results, playlistResults, arrival,
                 firstError, lateCount, masterPlaylist, masterWrites,
                 runError>>

CallGop ==
  /\ calc.fn = "getGOPSize"
  /\ ~calc.done
  /\ calc' = [fn |-> calc.fn, done |-> TRUE, args |-> calc.args,
              out |-> [threw |-> FALSE,
                       value |-> getGOPSize(calc.args.fps)]]
  /\ UNCHANGED <<cli, gpuMonitor, opts, pc, dirConfirmed, began, inputFile, needsCleanup,
                 tempFile, analysis, sourceInfo, optimalQualities, job,
                 starts, i, batches, results, playlistResults, arrival,
                 firstError, lateCount, masterPlaylist, masterWrites,
                 runError>>

CalcNext == CallResolution \/ CallBitrate \/ CallCrf \/ CallGop

CalcSpec == CalcInit /\ [][CalcNext]_vars

ResolutionDone == calc.fn = "getResolutionPresetLocal" /\ calc.done
BitrateDone    == calc.fn = "calculateOptimizedBitrateLocal" /\ calc.done

\* An even integer that is at least 16.
EvenAtLeast16(a) == a.k = "num" /\ a.d = 1 /\ a.n % 2 = 0 /\ a.n >= 16

\* The aspect ratio brought into [0.5, 3.0].
ClampedRatio(a) ==
  IF NumLess(a, Num(1, 2)) THEN Num(1, 2)
  ELSE IF NumLess(Int2Num(3), a) THEN Int2Num(3) ELSE a

\* C19: for a target height of the catalog and a finite positive aspect
\* ratio, getResolutionPresetLocal returns a width and a height that are
\* even integers of at least 16; the height is the target height and the
\* width is the target height times the aspect ratio clamped to [0.5, 3.0],
\* rounded and then raised by one when odd (so it lies between that product
\* less 1/2 and that product plus 3/2).
C19_ResolutionEven ==
  (/\ ResolutionDone
   /\ calc.args.targetHeight \in Catalog
   /\ calc.args.sourceAspectRatio \in FiniteAspectRatios)
  => LET t == calc.args.targetHeight
         c == ClampedRatio(calc.args.sourceAspectRatio)
         w == calc.out.width
         h == calc.out.height
     IN  /\ ~calc.out.threw
         /\ EvenAtLeast16(w)
         /\ EvenAtLeast16(h)
         /\ h.n = t
         /\ 2 * (w.n * c.d - t * c.n) >= 0 - c.d
         /\ 2 * (w.n * c.d - t * c.n) <= 3 * c.d

\* 144 * 9/16 is 81, which is odd: the width returned is 82.
C19_Witness ==
  /\ ResolutionDone
  /\ calc.args.targetHeight = 144
  /\ calc.args.sourceAspectRatio = Num(9, 16)
  /\ calc.out.width = Int2Num(82)
  /\ calc.out.height = Int2Num(144)

\* The arguments spec.md 4.2 calls invalid: a negative target height, a
\* non-finite aspect ratio.
InvalidArgs ==
  \/ /\ calc.fn \in {"getResolutionPresetLocal",
                      "calculateOptimizedBitrateLocal"}
     /\ calc.args.targetHeight < 0
  \/ /\ calc.fn = "getResolutionPresetLocal"
     /\ ~IsFinite(calc.args.sourceAspectRatio)

\* C20 as stated: a call of a calculator ends in an error exactly when its
\* target height is negative or its aspect ratio is not finite.
C20_FailsOnInvalidOnly ==
  (ResolutionDone \/ BitrateDone) => (calc.out.threw <=> InvalidArgs)

\* C20, amended: no call of a calculator ends in an error. The bitrate is
\* always an integer of at least 50. With an aspect ratio that is not NaN
\* the resolution is a pair of even integers of at least 16, and it is
\* 16x16 for a negative target height; with a NaN aspect ratio the width
\* is NaN.
C20_NeverFails ==
  (ResolutionDone \/ BitrateDone) =>
    /\ ~calc.out.threw
    /\ BitrateDone =>
         /\ calc.out.value.k = "num"
         /\ calc.out.value.d = 1
         /\ calc.out.value.n >= 50
    /\ ResolutionDone =>
         /\ EvenAtLeast16(calc.out.height)
         /\ IF IsNaN(calc.args.sourceAspectRatio)
            THEN IsNaN(calc.out.width)
            ELSE EvenAtLeast16(calc.out.width)
         /\ calc.args.targetHeight < 0 => calc.out.height = Int2Num(16)
         /\ (calc.args.targetHeight < 0
             /\ ~IsNaN(calc.args.sourceAspectRatio))
            => calc.out.width = Int2Num(16)

\* A negative target height with a NaN aspect ratio: a value comes back.
C20_Witness ==
  /\ ResolutionDone
  /\ calc.args.targetHeight = 0 - 720
  /\ IsNaN(calc.args.sourceAspectRatio)
  /\ ~calc.out.threw
  /\ IsNaN(calc.out.width)
  /\ calc.out.height = Int2Num(16)

\* ----------------------------------------------------- bitrate claims
\* The bitrate of the call under examination with another target height.
BitrateAt(t) ==
  calculateOptimizedBitrateLocal(Int2Num(t),
                                 Int2Num(calc.args.sourceBitrate),
                                 Int2Num(calc.args.sourceHeight),
                                 calc.args.bandwidthRatio).value

SourceKnown == calc.args.sourceBitrate # 0 /\ calc.args.sourceHeight # 0

\* C21: with the source and the bandwidth ratio held fixed, the bitrate of
\* a target height is never lower than the bitrate of a strictly lower
\* target height (heights are not negative).
C21_BitrateMonotone ==
  (BitrateDone /\ calc.args.targetHeight >= 0)
  => \A lower \in CalcHeights :
       (0 <= lower /\ lower < calc.args.targetHeight)
       => ~NumLess(calc.out.value, BitrateAt(lower))

\* A 1080p source of 5000 kbps: 5000 at 1080, 1556 at 720.
C21_Witness ==
  /\ BitrateDone
  /\ calc.args.targetHeight = 1080
  /\ calc.args.sourceBitrate = 5000
  /\ calc.args.sourceHeight = 1080
  /\ calc.args.bandwidthRatio = Int2Num(1)
  /\ calc.out.value = Int2Num(5000)
  /\ BitrateAt(720) = Int2Num(1556)

\* The band of a known source: the least bitrate and the cap.
BandMin ==
  LET t == Int2Num(calc.args.targetHeight)
  IN  JsMax(Int2Num(50), JsMul(t, MinBitrateFraction(t)))

BandMax ==
  JsMul(Int2Num(calc.args.sourceBitrate),
        MaxBitrateMultiple(Int2Num(calc.args.targetHeight)))

\* C22 as stated: for a known source the bitrate is at least the tiered
\* minimum and at most the tiered multiple of the source bitrate.
C22_ClampBand ==
  (BitrateDone /\ SourceKnown)
  => /\ ~NumLess(calc.out.value, BandMin)
     /\ ~NumLess(BandMax, calc.out.value)

\* C22, amended: for a known source the bitrate is the rounding of a value
\* that is at least the tiered minimum and at most the larger of the
\* tiered minimum and the tiered multiple of the source bitrate; when the
\* minimum exceeds the multiple the bitrate is the rounded minimum.
C22_ClampBandMinWins ==
  (BitrateDone /\ SourceKnown)
  => /\ ~NumLess(calc.out.value, JsRound(BandMin))
     /\ ~NumLess(JsRound(JsMax(BandMin, BandMax)), calc.out.value)
     /\ NumLess(BandMax, BandMin) => calc.out.value = JsRound(BandMin)

\* A 1080p source of 100 kbps at 1080: the minimum 648 exceeds the cap 180.
C22_Witness ==
  /\ BitrateDone
  /\ calc.args.targetHeight = 1080
  /\ calc.args.sourceBitrate = 100
  /\ calc.args.sourceHeight = 1080
  /\ BandMax = Int2Num(180)
  /\ calc.out.value = Int2Num(648)

Unknown720 ==
  /\ BitrateDone
  /\ ~SourceKnown
  /\ calc.args.targetHeight = 720

\* C23 as stated: with an unknown source and target height 720 the bitrate
\* is round(720 * 720 * 0.0048) = 2488 times the bandwidth ratio, clamped
\* to [144, 10000].
C23_Unknown720AsStated ==
  Unknown720
  => calc.out.value =
       JsRound(JsMax(Int2Num(144),
                     JsMin(Int2Num(10000),
                           JsMul(Int2Num(2488), calc.args.bandwidthRatio))))

\* C23, amended: with an unknown source and target height 720 the bitrate
\* is 2488 times the bandwidth ratio, clamped to [144, 4000]; it is 2488
\* for the bandwidth ratio 1.0.
C23_Unknown720 ==
  Unknown720
  => /\ calc.out.value =
          JsRound(JsMax(Int2Num(144),
                        JsMin(Int2Num(4000),
                              JsMul(Int2Num(2488),
                                    calc.args.bandwidthRatio))))
     /\ calc.args.bandwidthRatio = Int2Num(1)
        => calc.out.value = Int2Num(2488)

\* The bandwidth ratio 2.0: 4976 is cut to 4000.
C23_Witness ==
  /\ Unknown720
  /\ calc.args.bandwidthRatio = Int2Num(2)
  /\ calc.out.value = Int2Num(4000)

\* --------------------------------------------------- CRF and GOP claims
CrfDone == calc.fn = "getOptimalCRFLocal" /\ calc.done
GopDone == calc.fn = "getGOPSize" /\ calc.done

\* C24: for every target height, every source quality record (or none)
\* and every integer offset, getOptimalCRFLocal returns an integer of at
\* least 10 and at most 40.
C24_CrfInRange ==
  CrfDone => calc.out.value \in 10..40

\* An offset of +30 on the base 26 is cut to 40.
C24_Witness ==
  /\ CrfDone
  /\ calc.args.targetHeight = 144
  /\ calc.args.crfOffset = 30
  /\ calc.args.sourceQuality = NoSourceQuality
  /\ calc.out.value = 40

\* a1 / e1 < a2 / e2 for the actual and expected bitrates of two sources.
RatioLess(q1, q2) ==
  q1.actualBitrate * ExpectedBitrate(q2)
    < q2.actualBitrate * ExpectedBitrate(q1)

\* The ratio of the actual to the expected bitrate of q is above the
\* fraction n / 10.
RatioAbove(q, n) == 10 * q.actualBitrate > n * ExpectedBitrate(q)

\* C25: with the target height, the pixel format and the offset held
\* fixed, a source whose ratio of actual to expected bitrate is higher gets
\* a CRF that is not higher; the adjustment for the ratio lowers the CRF by
\* 1, 2 or 3 above the ratio 1.2, raises it by 1 or 2 below the ratio 0.8
\* and is absent in between.
C25_RicherIsFiner ==
  (CrfDone /\ calc.args.sourceQuality.present
           /\ calc.args.sourceQuality.actualBitrate > 0)
  => LET q == calc.args.sourceQuality
         adj == SourceQualityAdjustment(q)
     IN  /\ \A r \in SourceQualities :
              (/\ r.present
               /\ r.actualBitrate > 0
               /\ r.pixFmt = q.pixFmt
               /\ RatioLess(q, r))
              => getOptimalCRFLocal(calc.args.targetHeight, r,
                                    calc.args.crfOffset) <= calc.out.value
         /\ RatioAbove(q, 12) => adj \in {0 - 3, 0 - 2, 0 - 1}
         /\ ~RatioAbove(q, 8) /\ 10 * q.actualBitrate # 8 * ExpectedBitrate(q)
            => adj \in {1, 2}
         /\ (~RatioAbove(q, 12) /\ RatioAbove(q, 8)) => adj = 0
         /\ adj # 0 => Abs(adj) \in 1..3

\* A source at 10001 kbps against an expected 5000 at 720p: 23 - 3.
C25_Witness ==
  /\ CrfDone
  /\ calc.args.targetHeight = 720
  /\ calc.args.crfOffset = 0
  /\ calc.args.sourceQuality =
       [present |-> TRUE, actualBitrate |-> 10001,
        adjustedMaxBitrate |-> 5000, maxBitrate |-> 4000,
        pixFmt |-> "yuv420p"]
  /\ calc.out.value = 20

\* C26: getGOPSize returns the table value for a standard frame rate and
\* round(fps * 2) for every other frame rate, clamped to [24, 480].
C26_GopSize ==
  GopDone =>
    LET fps == calc.args.fps
        isStandard == fps.d = 1 /\ fps.n \in DOMAIN gopMap
        gop == IF isStandard THEN gopMap[fps.n]
               ELSE JsRound(JsMul(fps, Int2Num(2))).n
    IN  calc.out.value =
          IF gop > 480 THEN 480 ELSE IF gop < 24 THEN 24 ELSE gop

\* ------------------------------------------------------- run claims, II
\* C29: a run with sequential set starts its jobs one at a time and never
\* has two Running, whatever maxConcurrent is; with sequential unset and a
\* cap set, it starts batches of the cap's size; with neither set, it
\* starts every job in one batch.
C29_PolicyPrecedence ==
  /\ opts.sequential
     => /\ Cardinality(RunningJobs) <= 1
        /\ \A b \in 1..Len(batches) : batches[b] = 1
  /\ (~opts.sequential /\ opts.maxConcurrent # 0)
     => /\ \A b \in 1..Len(batches) : batches[b] <= opts.maxConcurrent
        /\ batches # <<>> => batches[1] = Min(opts.maxConcurrent, NumJobs)
  /\ (~opts.sequential /\ opts.maxConcurrent = 0)
     => /\ Len(batches) <= 1
        /\ batches # <<>> => batches[1] = NumJobs

\* Sequential with a cap of 3 and at least three jobs: the second job
\* runs alone.
C29_Witness ==
  /\ opts.sequential
  /\ opts.maxConcurrent = 3
  /\ NumJobs >= 3
  /\ batches = <<1, 1>>
  /\ RunningJobs = {2}

\* C30: when the run has settled and it had started the GPU usage monitor,
\* the monitor is stopped: it is not monitoring and has no timer.
C30_MonitorStopped ==
  (Settled /\ gpuMonitor.created)
  => (~gpuMonitor.monitoring /\ gpuMonitor.timers = 0)

\* ------------------------------------------------------------ termination
\* The steps of transcodeVideo itself: the continuation after each await.
\* An awaited file operation, download or analysis settles, and the event
\* loop runs a continuation that is ready.
Continue ==
  \/ EnsureOutputDir
  \/ Download
  \/ Analyze
  \/ SelectQualities
  \/ SequentialNext
  \/ SequentialResume
  \/ CappedNext
  \/ CappedResume
  \/ UnlimitedStart
  \/ UnlimitedResume
  \/ AwaitRejected
  \/ WriteMaster
  \/ Cleanup

\* An encoder emits 'end' or 'error'.
JobEvents == \E k \in Jobs : JobEnd(k) \/ JobError(k)

\* The run under the assumption that a ready continuation is run and that
\* a started encode job emits 'end' or 'error'.
FairSpec == Spec /\ WF_vars(Continue) /\ WF_vars(JobEvents)

\* C28: under each policy, if every started job eventually emits 'end' or
\* 'error', the run eventually settles, resolved or rejected; and every
\* turn of the batch loop of processWithConcurrencyLimit moves its index
\* forward.
C28_Terminates ==
  /\ <>Settled
  /\ [][(Policy = "capped" /\ pc = "await" /\ pc' = "dispatch")
          => i' > i]_vars

\* A capped run of five jobs with a cap of 2 has resolved after three
\* batches, its index past the end of the ladder.
C28_Witness ==
  /\ Policy = "capped"
  /\ opts.maxConcurrent = 2
  /\ pc = "resolved"
  /\ batches = <<2, 2, 1>>
  /\ i = 6

\* --------------------------------------------------------- the command line
\* The CLI action (src/unnamed/part_004 29-113) for valid values of every
\* option but --max-concurrent, whose value is a string of characters
\* (<<>> is the default '').
DigitValue ==
  [c \in {"0", "1", "2", "3", "4", "5", "6", "7", "8", "9"} |->
     CASE c = "0" -> 0 [] c = "1" -> 1 [] c = "2" -> 2 [] c = "3" -> 3
       [] c = "4" -> 4 [] c = "5" -> 5 [] c = "6" -> 6 [] c = "7" -> 7
       [] c = "8" -> 8 [] c = "9" -> 9]

\* The value of the first n characters of s, all digits.
RECURSIVE DigitsValue(_, _)
DigitsValue(s, n) ==
  IF n = 0 THEN 0 ELSE 10 * DigitsValue(s, n - 1) + DigitValue[s[n]]

\* parseInt(str): an optional sign, then the longest prefix of digits; NaN
\* when there is no digit.
parseInt(str) ==
  LET signed == str # <<>> /\ str[1] \in {"-", "+"}
      body   == IF signed THEN Tail(str) ELSE str
      n      == CHOOSE m \in 0..Len(body) :
                  /\ \A j \in 1..m : body[j] \in DOMAIN DigitValue
                  /\ m = Len(body) \/ body[m + 1] \notin DOMAIN DigitValue
      value  == DigitsValue(body, n)
  IN  IF n = 0 THEN NaN
      ELSE Int2Num(IF signed /\ str[1] = "-" THEN 0 - value ELSE value)

\* The value null.
Null == [k |-> "null", n |-> 0, d |-> 1]

\* A number or null used as a condition: null, NaN and 0 are falsy.
Truthy(a) == a.k = "Inf" \/ (a.k = "num" /\ a.n # 0)

MaxConcurrentArgs ==
  {<<>>, <<"0">>, <<"-", "2">>, <<"a", "b", "c">>, <<"1">>, <<"2">>,
   <<"3">>, <<"2", "x">>}

CliInit ==
  /\ cli \in [active : {TRUE}, maxConcurrent : MaxConcurrentArgs,
              exitCode : {0 - 1}, message : {""}]
  /\ opts \in [isUrl : BOOLEAN, dryRun : BOOLEAN, skipAnalysis : BOOLEAN,
               sequential : BOOLEAN, maxConcurrent : {0},
               minQuality : MinQualities]
  /\ pc = "cli"
  /\ dirConfirmed = FALSE
  /\ began = {}
  /\ inputFile = "input"
  /\ needsCleanup = FALSE
  /\ tempFile = FALSE
  /\ analysis = "none"
  /\ sourceInfo = NoSourceInfo
  /\ optimalQualities = <<>>
  /\ job = <<>>
  /\ starts = <<>>
  /\ i = 0
  /\ batches = <<>>
  /\ results = <<>>
  /\ playlistResults = <<>>
  /\ arrival = <<>>
  /\ firstError = 0
  /\ lateCount = 0
  /\ masterPlaylist = <<>>
  /\ masterWrites = 0
  /\ runError = ""
  /\ calc = NoCalc
  /\ gpuMonitor = NoGpuMonitor

\* part_004 78-99: --max-concurrent is parsed and checked, then
\* transcodeVideo is called with the parsed value (held as 0 when falsy).
CliAction ==
  /\ pc = "cli"
  /\ cli.active
  /\ cli.exitCode = 0 - 1
  /\ LET maxConcurrent == IF cli.maxConcurrent # <<>>
                          THEN parseInt(cli.maxConcurrent) ELSE Null
     IN  IF /\ Truthy(maxConcurrent)
            /\ IsNaN(maxConcurrent) \/ ~NumLess(Int2Num(0), maxConcurrent)
         THEN /\ cli' = [cli EXCEPT
                           !.exitCode = 1,
                           !.message =
                             "Max concurrent must be a positive number"]
              /\ UNCHANGED <<opts, pc>>
         ELSE /\ opts' = [opts EXCEPT
                            !.maxConcurrent =
                              IF Truthy(maxConcurrent) THEN maxConcurrent.n
                              ELSE 0]
              /\ pc' = "start"
              /\ UNCHANGED cli
  /\ UNCHANGED <<calc, gpuMonitor, prepVars, optimalQualities, jobVars,
                 loopVars, outVars, runError>>

\* part_004 101-112: the call returned (the process ends with code 0) or
\* threw (the catch block prints the error and exits with code 1).
CliDone ==
  /\ cli.active
  /\ cli.exitCode = 0 - 1
  /\ Settled
  /\ cli' = [cli EXCEPT
               !.exitCode = IF pc = "resolved" THEN 0 ELSE 1,
               !.message = IF pc = "resolved" THEN "" ELSE runError]
  /\ UNCHANGED <<calc, gpuMonitor, opts, pc, prepVars, optimalQualities,
                 jobVars, loopVars, outVars, runError>>

CliNext == CliAction \/ CliDone \/ Next

CliSpec == CliInit /\ [][CliNext]_vars

\* Values of --max-concurrent that are not a positive number: zero, a
\* negative number, a word.
NotPositiveArgs == {<<"0">>, <<"-", "2">>, <<"a", "b", "c">>}

\* C27: once the CLI has dealt with a --max-concurrent value that is not a
\* positive number, it has exited with code 1 and the message 'Max
\* concurrent must be a positive number', transcodeVideo has not been
\* called and no job has started.
C27_RejectsNotPositive ==
  (/\ cli.active
   /\ cli.maxConcurrent \in NotPositiveArgs
   /\ pc # "cli" \/ cli.exitCode # 0 - 1)
  => /\ cli.exitCode = 1
     /\ cli.message = "Max concurrent must be a positive number"
     /\ pc = "cli"
     /\ batches = <<>>

====
